---- MODULE Spec2Model ----
(***************************************************************************)
(* A model of CubeTree<N, MaxT, T, FType> (src/CubeTree.hpp): an N x N x N *)
(* cube subdivision tree over moving point entities.                       *)
(*                                                                         *)
(* Coordinates and lengths are FType values kept as fixed-point integers   *)
(* in units of 1/Scale; every value the model computes is a dyadic         *)
(* rational that a double holds exactly, so the integer arithmetic below   *)
(* equals the floating-point arithmetic of the source.                     *)
(* Node pointers are indices into the sequence nodes; 0 is nullptr.        *)
(***************************************************************************)
EXTENDS Integers, Sequences, FiniteSets, TLC

\* template parameters: branching factor and leaf capacity
N == 2
MaxT == 2
\* fixed-point denominator of FType values
Scale == 8

\* bounds of the model
NumEntities == 3
MaxOps == 4
\* thread budgets passed to update and forEachAsync: 0..MaxBudget
MaxBudget == 2

Entities == 1..NumEntities
Axes == 1..3

\* side lengths of the root cube passed to the constructor: 0.5, 1.0 and 2.0
RootLengths == {Scale \div 2, Scale, 2 * Scale}
Origin == <<0, 0, 0>>

\* positions entities take (in units of 1/Scale)
PNear == <<1, 1, 1>>
PLow == <<-1, -1, -1>>
PCorner == <<12, 12, 12>>
PSide == <<-40, 1, 1>>
Points == {PNear, PLow, PCorner, PSide}

\* query radii; QueryAll reaches every point from every point
QueryAll == 128
Radii == {0, 2, QueryAll}

VARIABLES
    nodes,      \* every node allocated so far: parent, children, data, box
    root,       \* the caller's handle: the node the last insert/update returned
    pos,        \* m_position of each entity
    prev,       \* m_prevPosition of each entity
    crashed,    \* an insert recursed without bound and exhausted the stack
    last,       \* the last completed call: its operation, argument and result
    placedAt,   \* the position each entity had when insert was last called on it
    pure,       \* so far only inserts, each within the first root's cube
    upd,        \* the locals of the update call in progress
    ops,        \* number of calls made so far
    \* the locals of a forEachAsync call and the threads it starts
    threads,        \* the budget passed in
    stopAt,         \* the entity for which func returns false (0: none)
    tasks,          \* call stack of each thread; 1 is the caller, the
                    \* others are the std::async tasks in creation order
    futures,        \* the queue futures: ids of the tasks whose future it holds
    futuresMutex,   \* the thread that owns futuresMutex (0: free)
    activeThreads,  \* the uint16 counter
    visits,         \* the entities func was called with, in call order
    fault,          \* undefined behaviour ended the process
    \* threads that call into the tree at the same time
    thr             \* call stack of each such thread and of each task a
                    \* collectAndRemove call started

treeVars == <<nodes, root, pos, prev, crashed, last, placedAt, pure, upd, ops>>
travVars == <<threads, stopAt, tasks, futures, futuresMutex, activeThreads,
              visits, fault>>
vars == <<nodes, root, pos, prev, crashed, last, placedAt, pure, upd, ops,
          threads, stopAt, tasks, futures, futuresMutex, activeThreads,
          visits, fault, thr>>

----------------------------------------------------------------------------
\* helpers on sequences

Range(s) == {s[i] : i \in DOMAIN s}

RECURSIVE Concat(_)
Concat(ss) == IF ss = <<>> THEN <<>> ELSE Head(ss) \o Concat(Tail(ss))

Count(s, e) == Cardinality({i \in DOMAIN s : s[i] = e})

\* vector::erase of the first element equal to e (std::find + erase)
EraseFirst(s, e) ==
    LET i == CHOOSE k \in DOMAIN s : s[k] = e /\ \A m \in 1..(k - 1) : s[m] # e
    IN  SubSeq(s, 1, i - 1) \o SubSeq(s, i + 1, Len(s))

Min(S) == CHOOSE x \in S : \A y \in S : x <= y

----------------------------------------------------------------------------
\* geometry

\* the N^3 child slots in the order of the i, j, k loops
NumSlots == N * N * N
SlotSeq == [s \in 1..(N * N * N) |->
              <<(s - 1) \div (N * N), ((s - 1) \div N) % N, (s - 1) % N>>]
Slots == Range(SlotSeq)
NoChildren == [s \in Slots |-> 0]

\* BBox
Box(c, l) == [center |-> c, length |-> l]

\* inside(box, pos): inclusive on both faces; halfBl = length / 2
inside(box, p) ==
    \A a \in Axes :
        /\ 2 * p[a] >= 2 * box.center[a] - box.length
        /\ 2 * p[a] <= 2 * box.center[a] + box.length

\* the childBBox computed in insertToChild for slot <<i, j, k>>:
\* center - length/2 + (length/N) * (i + 0.5), side length/N
childBBox(box, slot) ==
    Box([a \in Axes |->
            (2 * N * box.center[a] - N * box.length
               + box.length * (2 * slot[a] + 1)) \div (2 * N)],
        box.length \div N)

\* intersects(center, range, box): slab test of the two bounding boxes
intersects(c, r, box) ==
    \A a \in Axes :
        /\ 2 * (c[a] - r) <= 2 * box.center[a] + box.length
        /\ 2 * (c[a] + r) >= 2 * box.center[a] - box.length

\* glm::distance(a, b) <= range, for range >= 0
withinDistance(a, b, r) ==
    (a[1] - b[1]) * (a[1] - b[1]) + (a[2] - b[2]) * (a[2] - b[2])
        + (a[3] - b[3]) * (a[3] - b[3]) <= r * r

\* one cube lies within another
BoxWithin(inner, outer) ==
    \A a \in Axes :
        /\ 2 * inner.center[a] - inner.length >= 2 * outer.center[a] - outer.length
        /\ 2 * inner.center[a] + inner.length <= 2 * outer.center[a] + outer.length

----------------------------------------------------------------------------
\* nodes

Node(par, ch, d, b) == [parent |-> par, children |-> ch, data |-> d, box |-> b]

isParent(nd) == \E s \in Slots : nd.children[s] # 0

\* CubeTree(const BBox&, data): a fresh node whose insert(data) finds the
\* position inside the box and the list empty, so it holds exactly data
NewLeaf(box, e) == Node(0, NoChildren, <<e>>, box)

\* box of CubeTree(CubeTree* child): the child's center, the length squared
ParentBox(box) == Box(box.center, (box.length * box.length) \div Scale)

\* slot of CubeTree(CubeTree* child): per axis 0 if the child's center is
\* below the new center, else N - 1
ParentSlot(cbox, pbox) ==
    [a \in Axes |-> IF cbox.center[a] < pbox.center[a] THEN 0 ELSE N - 1]

\* CubeTree(CubeTree* child)
NewParent(ns, n) ==
    LET pbox == ParentBox(ns[n].box)
    IN  Node(0, [NoChildren EXCEPT ![ParentSlot(ns[n].box, pbox)] = n], <<>>, pbox)

\* insertToChild(data) on node n: the first slot in loop order whose childBBox
\* contains the position takes the entity; a new child is constructed and
\* linked, an existing child gets a bare push_back; no slot, no effect
insertToChild(ns, n, e, P) ==
    LET hits == {s \in 1..NumSlots : inside(childBBox(ns[n].box, SlotSeq[s]), P[e])}
    IN  IF hits = {} THEN ns
        ELSE LET slot == SlotSeq[Min(hits)]
                 c == ns[n].children[slot]
             IN  IF c = 0
                 THEN Append([ns EXCEPT ![n].children[slot] = Len(ns) + 1],
                             [NewLeaf(childBBox(ns[n].box, slot), e) EXCEPT !.parent = n])
                 ELSE [ns EXCEPT ![c].data = Append(@, e)]

\* the loop "for (auto& d : this->data) insertToChild(d)" over the list ds
RECURSIVE redistribute(_, _, _, _)
redistribute(ns, n, ds, P) ==
    IF ds = <<>> THEN ns
    ELSE redistribute(insertToChild(ns, n, Head(ds), P), n, Tail(ds), P)

\* the branch of insert taken when the position is inside this node's box
insertInside(ns, n, e, P) ==
    IF isParent(ns[n]) THEN insertToChild(ns, n, e, P)
    ELSE IF Len(ns[n].data) < MaxT THEN [ns EXCEPT ![n].data = Append(@, e)]
    ELSE [redistribute(ns, n, ns[n].data, P) EXCEPT ![n].data = <<>>]

\* "if (parent == nullptr) parent = new CubeTree(this)"
ensureParent(ns, n) ==
    IF ns[n].parent # 0 THEN ns
    ELSE Append([ns EXCEPT ![n].parent = Len(ns) + 1], NewParent(ns, n))

\* insert(data) on node n. Returns the nodes, the node returned, and whether
\* the upward recursion never ends: a parent no longer than its child has a
\* side <= 1.0, every further parent lies within it, and none contains the
\* position.
RECURSIVE insert(_, _, _, _)
insert(ns, n, e, P) ==
    IF inside(ns[n].box, P[e])
    THEN [nodes |-> insertInside(ns, n, e, P), ret |-> n, crashed |-> FALSE]
    ELSE LET up == ensureParent(ns, n)
             p == up[n].parent
         IN  IF up[p].box.length <= up[n].box.length
             THEN [nodes |-> up, ret |-> 0, crashed |-> TRUE]
             ELSE insert(up, p, e, P)

\* remove(data) on node n: only a node whose box contains the entity's
\* current position is searched; the children are tried in loop order
RECURSIVE remove(_, _, _, _)
RECURSIVE removeInChildren(_, _, _, _, _)

\* remove with the list searched by position instead of by identity
removeByPosition(ns, n, e, P) ==
    IF ~inside(ns[n].box, P[e]) THEN [nodes |-> ns, found |-> FALSE]
    ELSE IF \E d \in Range(ns[n].data) : P[d] = P[e]
    THEN [nodes |-> [ns EXCEPT ![n].data =
                        EraseFirst(@, CHOOSE d \in Range(ns[n].data) : P[d] = P[e])],
          found |-> TRUE]
    ELSE removeInChildren(ns, n, 1, e, P)

remove(ns, n, e, P) ==
    IF ~inside(ns[n].box, P[e]) THEN [nodes |-> ns, found |-> FALSE]
    ELSE IF e \in Range(ns[n].data)
    THEN [nodes |-> [ns EXCEPT ![n].data = EraseFirst(@, e)], found |-> TRUE]
    ELSE removeInChildren(ns, n, 1, e, P)

removeInChildren(ns, n, s, e, P) ==
    IF s > NumSlots THEN [nodes |-> ns, found |-> FALSE]
    ELSE LET c == ns[n].children[SlotSeq[s]]
         IN  IF c = 0 THEN removeInChildren(ns, n, s + 1, e, P)
             ELSE LET r == remove(ns, c, e, P)
                  IN  IF r.found THEN r ELSE removeInChildren(ns, n, s + 1, e, P)

\* queryRange around center c with range r, started at node n: the results
\* vector, in push_back order
RECURSIVE queryRange(_, _, _, _, _)
queryRange(ns, n, c, r, P) ==
    IF ~intersects(c, r, ns[n].box) THEN <<>>
    ELSE SelectSeq(ns[n].data, LAMBDA d : withinDistance(c, P[d], r))
         \o Concat([s \in 1..NumSlots |->
                IF ns[n].children[SlotSeq[s]] = 0 THEN <<>>
                ELSE queryRange(ns, ns[n].children[SlotSeq[s]], c, r, P)])

\* the walk "while (root->parent != nullptr) root = root->parent"
RECURSIVE topmost(_, _)
topmost(ns, n) == IF ns[n].parent = 0 THEN n ELSE topmost(ns, ns[n].parent)

\* collectAndRemove taking every element for a mover
isMoverAlways(e, P, Q) == TRUE

\* the test of collectAndRemove: m_position != m_prevPosition
isMover(e, P, Q) == P[e] # Q[e]

\* the elements collectAndRemove takes out of a node's list, in list order
moversOf(nd, P, Q) == SelectSeq(nd.data, LAMBDA d : isMover(d, P, Q))

\* the children collectAndRemove starts a task for
childrenOf(nd) == {nd.children[s] : s \in Slots} \ {0}

----------------------------------------------------------------------------
\* what the tree holds

\* number of node lists entries that are entity e
HeldCount(ns, e) ==
    LET RECURSIVE sum(_)
        sum(i) == IF i = 0 THEN 0 ELSE Count(ns[i].data, e) + sum(i - 1)
    IN  sum(Len(ns))

Held(ns) == {e \in Entities : HeldCount(ns, e) > 0}

\* the nodes whose list holds e
Holders(ns, e) == {i \in DOMAIN ns : e \in Range(ns[i].data)}

----------------------------------------------------------------------------
\* the state machine

\* rep: the call is an update that follows an update with nothing between
NoCall == [op |-> "none", e |-> 0, ret |-> 0, rep |-> FALSE]
Call(o, e, r) == [op |-> o, e |-> e, ret |-> r, rep |-> FALSE]
NoPos == <<>>
\* update's locals: root, toReinsert, the futures' results (0: not ready),
\* the nodes whose collect task has not scanned yet, whether the
\* m_prevPosition loop has run, how many futures were taken off the queue;
\* movers, the entities the collect phase took out of node lists; and
\* threads, the budget the caller passed
NoUpdate == [pc |-> "idle", root |-> 0, pending |-> {}, toReinsert |-> <<>>,
             results |-> <<>>, prevDone |-> FALSE, consumed |-> 0, movers |-> {},
             threads |-> 0]

\* no forEachAsync call is in progress
NoTraversal ==
    /\ threads = 0 /\ stopAt = 0 /\ tasks = <<>> /\ futures = <<>>
    /\ futuresMutex = 0 /\ activeThreads = 0 /\ visits = <<>> /\ fault = FALSE

\* The root is built by CubeTree(box, data), which inserts its first entity;
\* the constructor throws unless that insert returns the node itself, so the
\* first entity lies inside the box.
Init ==
    \E l \in RootLengths : \E p \in {q \in Points : inside(Box(Origin, l), q)} :
        /\ nodes = <<NewLeaf(Box(Origin, l), 1)>>
        /\ root = 1
        /\ pos = [e \in Entities |-> IF e = 1 THEN p ELSE Origin]
        /\ prev = [e \in Entities |-> IF e = 1 THEN p ELSE Origin]
        /\ crashed = FALSE
        /\ last = Call("insert", 1, 1)
        /\ placedAt = [e \in Entities |-> IF e = 1 THEN p ELSE NoPos]
        /\ pure = TRUE
        /\ upd = NoUpdate
        /\ ops = 0
        /\ NoTraversal
        /\ thr = <<>>

Idle == ~crashed /\ upd.pc = "idle" /\ ops < MaxOps

\* the caller moves an entity it has created; the tree is not told
Move(e, p) ==
    /\ Idle
    /\ placedAt[e] # NoPos
    /\ p # pos[e]
    /\ pos' = [pos EXCEPT ![e] = p]
    /\ last' = NoCall
    /\ pure' = FALSE
    /\ ops' = ops + 1
    /\ UNCHANGED <<nodes, root, prev, crashed, placedAt, upd>>
    /\ UNCHANGED travVars
    /\ UNCHANGED thr

\* root = root->insert(e) for an entity the tree does not hold. An entity
\* not inserted before is created by the caller at p, with m_prevPosition
\* equal to m_position; one inserted before is where the caller last put it.
\* Entities are created in the order of their numbers.
Insert(e, p) ==
    /\ Idle
    /\ e \notin Held(nodes)
    /\ IF placedAt[e] = NoPos
       THEN \A d \in 1..(e - 1) : placedAt[d] # NoPos
       ELSE p = pos[e]
    /\ LET P == [pos EXCEPT ![e] = p]
           r == insert(nodes, root, e, P)
       IN  /\ nodes' = r.nodes
           /\ crashed' = r.crashed
           /\ root' = IF r.crashed THEN root ELSE r.ret
           /\ last' = Call("insert", e, r.ret)
           /\ pos' = P
    /\ prev' = IF placedAt[e] = NoPos THEN [prev EXCEPT ![e] = p] ELSE prev
    /\ placedAt' = [placedAt EXCEPT ![e] = p]
    /\ pure' = (pure /\ placedAt[e] = NoPos /\ inside(nodes[1].box, p))
    /\ ops' = ops + 1
    /\ UNCHANGED upd
    /\ UNCHANGED travVars
    /\ UNCHANGED thr

\* root->remove(e)
Remove(e) ==
    /\ Idle
    /\ LET r == remove(nodes, root, e, pos)
       IN  /\ nodes' = r.nodes
           /\ last' = Call("remove", e, IF r.found THEN 1 ELSE 0)
    /\ pure' = FALSE
    /\ ops' = ops + 1
    /\ UNCHANGED <<root, pos, prev, crashed, placedAt, upd>>
    /\ UNCHANGED travVars
    /\ UNCHANGED thr

\* update(threads, root) is entered; collectAndRemove(root, ...) is to run.
\* The parameter threads is read nowhere in update or collectAndRemove.
UpdateStart ==
    /\ Idle
    /\ \E b \in 0..MaxBudget :
          upd' = [NoUpdate EXCEPT !.pc = "collect", !.root = root,
                                  !.pending = {root}, !.threads = b]
    /\ pure' = FALSE
    /\ last' = IF last.op = "update" THEN last ELSE NoCall
    /\ ops' = ops + 1
    /\ UNCHANGED <<nodes, root, pos, prev, crashed, placedAt>>
    /\ UNCHANGED travVars
    /\ UNCHANGED thr

\* collectAndRemove(n, ...) scans n's list, moves the movers to toReinsert
\* and starts one task per child; tasks of different subtrees run in any order
CollectNode(n) ==
    /\ ~crashed /\ upd.pc = "collect" /\ n \in upd.pending
    /\ nodes' = [nodes EXCEPT ![n].data = SelectSeq(@, LAMBDA d : ~isMover(d, pos, prev))]
    /\ upd' = [upd EXCEPT
                 !.toReinsert = @ \o moversOf(nodes[n], pos, prev),
                 !.pending = (@ \ {n}) \cup childrenOf(nodes[n]),
                 !.movers = @ \cup Range(moversOf(nodes[n], pos, prev))]
    /\ UNCHANGED <<root, pos, prev, crashed, last, placedAt, pure, ops>>
    /\ UNCHANGED travVars
    /\ UNCHANGED thr

\* Two collect tasks push_back to toReinsert at once, with no lock between
\* them: both write the same slot and one of the two elements is lost.
CollectCollide(n, m, keep) ==
    /\ ~crashed /\ upd.pc = "collect" /\ n \in upd.pending /\ m \in upd.pending
    /\ n # m
    /\ moversOf(nodes[n], pos, prev) # <<>> /\ moversOf(nodes[m], pos, prev) # <<>>
    /\ keep \in {n, m}
    /\ nodes' = [i \in DOMAIN nodes |->
                   IF i \in {n, m}
                   THEN [nodes[i] EXCEPT !.data = SelectSeq(@, LAMBDA d : ~isMover(d, pos, prev))]
                   ELSE nodes[i]]
    /\ upd' = [upd EXCEPT
                 !.toReinsert = @ \o <<Head(moversOf(nodes[keep], pos, prev))>>
                                  \o Tail(moversOf(nodes[n], pos, prev))
                                  \o Tail(moversOf(nodes[m], pos, prev)),
                 !.pending = (@ \ {n, m}) \cup childrenOf(nodes[n]) \cup childrenOf(nodes[m]),
                 !.movers = @ \cup Range(moversOf(nodes[n], pos, prev))
                              \cup Range(moversOf(nodes[m], pos, prev))]
    /\ UNCHANGED <<root, pos, prev, crashed, last, placedAt, pure, ops>>
    /\ UNCHANGED travVars
    /\ UNCHANGED thr

\* every collect task has been joined; one async reinsert per mover is launched
LaunchReinserts ==
    /\ ~crashed /\ upd.pc = "collect" /\ upd.pending = {}
    /\ upd' = [upd EXCEPT !.pc = "reinsert",
                           !.results = [i \in DOMAIN upd.toReinsert |-> 0]]
    /\ UNCHANGED <<nodes, root, pos, prev, crashed, last, placedAt, pure, ops>>
    /\ UNCHANGED travVars
    /\ UNCHANGED thr

\* the i-th reinsert task takes insertMutex and runs root->insert(data) on
\* the value update's variable root has at that moment
ReinsertTask(i) ==
    /\ ~crashed /\ upd.pc = "reinsert"
    /\ i \in DOMAIN upd.results /\ upd.results[i] = 0
    /\ LET r == insert(nodes, upd.root, upd.toReinsert[i], pos)
       IN  /\ nodes' = r.nodes
           /\ crashed' = r.crashed
           /\ upd' = [upd EXCEPT !.results[i] = r.ret]
    /\ placedAt' = [placedAt EXCEPT ![upd.toReinsert[i]] = pos[upd.toReinsert[i]]]
    /\ UNCHANGED <<root, pos, prev, last, pure, ops>>
    /\ UNCHANGED travVars
    /\ UNCHANGED thr

\* "for (auto& data : toReinsert) data->m_prevPosition = data->m_position"
SetPrev ==
    /\ ~crashed /\ upd.pc = "reinsert" /\ ~upd.prevDone
    /\ prev' = [e \in Entities |->
                  IF e \in Range(upd.toReinsert) THEN pos[e] ELSE prev[e]]
    /\ upd' = [upd EXCEPT !.prevDone = TRUE]
    /\ UNCHANGED <<nodes, root, pos, crashed, last, placedAt, pure, ops>>
    /\ UNCHANGED travVars
    /\ UNCHANGED thr

\* "root = futures.front().get(); futures.pop()"
Consume ==
    /\ ~crashed /\ upd.pc = "reinsert" /\ upd.prevDone
    /\ upd.consumed < Len(upd.results)
    /\ upd.results[upd.consumed + 1] # 0
    /\ upd' = [upd EXCEPT !.root = upd.results[upd.consumed + 1],
                           !.consumed = @ + 1]
    /\ UNCHANGED <<nodes, root, pos, prev, crashed, last, placedAt, pure, ops>>
    /\ UNCHANGED travVars
    /\ UNCHANGED thr

\* the walk to the topmost parent; update returns it and the caller adopts it
UpdateReturn ==
    /\ ~crashed /\ upd.pc = "reinsert" /\ upd.prevDone
    /\ upd.consumed = Len(upd.results)
    /\ root' = topmost(nodes, upd.root)
    /\ last' = [Call("update", 0, topmost(nodes, upd.root))
                   EXCEPT !.rep = (last.op = "update")]
    /\ upd' = NoUpdate
    /\ UNCHANGED <<nodes, pos, prev, crashed, placedAt, pure, ops>>
    /\ UNCHANGED travVars
    /\ UNCHANGED thr

Next ==
    \/ \E e \in Entities, p \in Points : Move(e, p)
    \/ \E e \in Entities, p \in Points : Insert(e, p)
    \/ \E e \in Entities : Remove(e)
    \/ UpdateStart
    \/ \E n \in DOMAIN nodes : CollectNode(n)
    \/ \E n, m \in DOMAIN nodes : \E keep \in {n, m} : CollectCollide(n, m, keep)
    \/ LaunchReinserts
    \/ \E i \in 1..NumEntities : ReinsertTask(i)
    \/ SetPrev
    \/ Consume
    \/ UpdateReturn

Spec == Init /\ [][Next]_vars

----------------------------------------------------------------------------
\* forEach(func) and forEachAsync(threads, func), run on the tree as it stands

\* One call of applyFunctionToNodeAsync(node): where it stands (pc), the
\* index of the next list element or child slot (i), its localFutures (lf),
\* and the task whose future it waits for (target). The caller's bottom
\* frame is the body of forEachAsync itself, in its last loop.
Frame(n, pc, i) == [node |-> n, pc |-> pc, i |-> i, lf |-> <<>>, target |-> 0]

\* the first filled child slot at or after index i in loop order, or 0
NextChild(nd, i) ==
    LET S == {s \in i..NumSlots : nd.children[SlotSeq[s]] # 0}
    IN  IF S = {} THEN 0 ELSE Min(S)

\* the frame once the slots before i are dealt with: at the next filled
\* slot, or past the loop at the block that moves localFutures to futures
AtChild(ns, fr, i) ==
    IF NextChild(ns[fr.node], i) = 0
    THEN [fr EXCEPT !.pc = "push", !.i = 0]
    ELSE [fr EXCEPT !.pc = "child", !.i = NextChild(ns[fr.node], i)]

\* entry of applyFunctionToNodeAsync(n): the loop over node->data comes first
Enter(ns, n) ==
    IF ns[n].data # <<>> THEN Frame(n, "visit", 1)
    ELSE AtChild(ns, Frame(n, "child", 1), 1)

Top(t) == tasks[t][Len(tasks[t])]
SetTop(t, fr) == [tasks EXCEPT ![t][Len(tasks[t])] = fr]
Finished(t) == tasks[t] = <<>>

\* the call is in progress: entered, not returned, the process alive
Running == tasks # <<>> /\ tasks[1] # <<>> /\ ~fault
Runs(t) == Running /\ t \in DOMAIN tasks /\ ~Finished(t)

\* applyFunctionToNodeAsync returns in thread t. A caller that made the call
\* synchronously leaves the scope of its lock_guard and goes on to the next
\* slot; a task whose stack empties is finished and its future ready.
CallerInCall(t) ==
    Len(tasks[t]) > 1 /\ tasks[t][Len(tasks[t]) - 1].pc = "incall"
Returned(t) ==
    LET st == SubSeq(tasks[t], 1, Len(tasks[t]) - 1)
    IN  IF CallerInCall(t)
        THEN [tasks EXCEPT ![t] =
                [st EXCEPT ![Len(st)] = AtChild(nodes, st[Len(st)], st[Len(st)].i + 1)]]
        ELSE [tasks EXCEPT ![t] = st]
MutexAfterReturn(t) == IF CallerInCall(t) THEN 0 ELSE futuresMutex

\* uint16 decrement
Decrement(a) == (a + 65535) % 65536

\* thread t is about to lock futuresMutex
AtLock(t) == Top(t).pc \in {"child", "push", "manage", "final"}
\* thread t has waited and is about to lock futuresMutex again
AtRelock(t) == Top(t).pc \in {"wait", "finalwait"}

\* "if (!func(data)) return;" for the next element of node->data
VisitData(t) ==
    /\ Runs(t) /\ Top(t).pc = "visit"
    /\ LET fr == Top(t)
           e == nodes[fr.node].data[fr.i]
       IN  /\ visits' = Append(visits, e)
           /\ IF e = stopAt
              THEN tasks' = Returned(t) /\ futuresMutex' = MutexAfterReturn(t)
              ELSE /\ tasks' = SetTop(t, IF fr.i < Len(nodes[fr.node].data)
                                         THEN [fr EXCEPT !.i = @ + 1]
                                         ELSE AtChild(nodes, fr, 1))
                   /\ UNCHANGED futuresMutex
    /\ UNCHANGED <<threads, stopAt, futures, activeThreads, fault>>
    /\ UNCHANGED treeVars
    /\ UNCHANGED thr

\* under futuresMutex, activeThreads < threads: std::async starts a task for
\* the child, its future goes to localFutures, activeThreads++
SpawnChild(t) ==
    /\ Runs(t) /\ Top(t).pc = "child" /\ futuresMutex = 0
    /\ activeThreads < threads
    /\ LET fr == Top(t)
           c == nodes[fr.node].children[SlotSeq[fr.i]]
       IN  tasks' = Append(SetTop(t, AtChild(nodes,
                                [fr EXCEPT !.lf = Append(@, Len(tasks) + 1)], fr.i + 1)),
                           <<Enter(nodes, c)>>)
    /\ activeThreads' = activeThreads + 1
    /\ UNCHANGED <<threads, stopAt, futures, futuresMutex, visits, fault>>
    /\ UNCHANGED treeVars
    /\ UNCHANGED thr

\* under futuresMutex, the budget is used up: the child is processed by a
\* plain call, made while the lock_guard of this iteration is alive
CallChild(t) ==
    /\ Runs(t) /\ Top(t).pc = "child" /\ futuresMutex = 0
    /\ ~(activeThreads < threads)
    /\ LET fr == Top(t)
           c == nodes[fr.node].children[SlotSeq[fr.i]]
       IN  tasks' = [tasks EXCEPT ![t] =
                        Append(SubSeq(tasks[t], 1, Len(tasks[t]) - 1)
                                  \o <<[fr EXCEPT !.pc = "incall"]>>,
                               Enter(nodes, c))]
    /\ futuresMutex' = t
    /\ UNCHANGED <<threads, stopAt, futures, activeThreads, visits, fault>>
    /\ UNCHANGED treeVars
    /\ UNCHANGED thr

\* under futuresMutex, localFutures are moved to the queue futures
PushFutures(t) ==
    /\ Runs(t) /\ Top(t).pc = "push" /\ futuresMutex = 0
    /\ futures' = futures \o Top(t).lf
    /\ tasks' = SetTop(t, [Top(t) EXCEPT !.pc = "manage", !.lf = <<>>])
    /\ UNCHANGED <<threads, stopAt, futuresMutex, activeThreads, visits, fault>>
    /\ UNCHANGED treeVars
    /\ UNCHANGED thr

\* one turn of the loop "Check and manage futures": leave it, or take a
\* reference to futures.front(), unlock and wait for that future
ManageFutures(t) ==
    /\ Runs(t) /\ Top(t).pc = "manage" /\ futuresMutex = 0
    /\ IF futures = <<>> \/ activeThreads < threads
       THEN tasks' = Returned(t) /\ futuresMutex' = MutexAfterReturn(t)
       ELSE /\ tasks' = SetTop(t, [Top(t) EXCEPT !.pc = "wait", !.target = Head(futures)])
            /\ UNCHANGED futuresMutex
    /\ UNCHANGED <<threads, stopAt, futures, activeThreads, visits, fault>>
    /\ UNCHANGED treeVars
    /\ UNCHANGED thr

\* the future waited for is ready: lock again, futures.pop(), activeThreads--
WaitFuture(t) ==
    /\ Runs(t) /\ Top(t).pc = "wait" /\ futuresMutex = 0
    /\ Finished(Top(t).target)
    /\ futures # <<>>
    /\ futures' = Tail(futures)
    /\ activeThreads' = Decrement(activeThreads)
    /\ tasks' = SetTop(t, [Top(t) EXCEPT !.pc = "manage", !.target = 0])
    /\ UNCHANGED <<threads, stopAt, futuresMutex, visits, fault>>
    /\ UNCHANGED treeVars
    /\ UNCHANGED thr

\* the last loop of forEachAsync: return when futures is empty, else wait
\* for futures.front()
FinalLoop ==
    /\ Runs(1) /\ Top(1).pc = "final" /\ futuresMutex = 0
    /\ IF futures = <<>>
       THEN tasks' = [tasks EXCEPT ![1] = <<>>]
       ELSE tasks' = SetTop(1, [Top(1) EXCEPT !.pc = "finalwait", !.target = Head(futures)])
    /\ UNCHANGED <<threads, stopAt, futures, futuresMutex, activeThreads, visits, fault>>
    /\ UNCHANGED treeVars
    /\ UNCHANGED thr

FinalWait ==
    /\ Runs(1) /\ Top(1).pc = "finalwait" /\ futuresMutex = 0
    /\ Finished(Top(1).target)
    /\ futures # <<>>
    /\ futures' = Tail(futures)
    /\ activeThreads' = Decrement(activeThreads)
    /\ tasks' = SetTop(1, [Top(1) EXCEPT !.pc = "final", !.target = 0])
    /\ UNCHANGED <<threads, stopAt, futuresMutex, visits, fault>>
    /\ UNCHANGED treeVars
    /\ UNCHANGED thr

\* Undefined behaviour. A thread that locks the std::mutex it owns either
\* blocks for ever (it takes no further step) or the lock fails and the call
\* ends abnormally; pop() on an empty queue, and a wait through a reference
\* to a queue element another thread has popped, end abnormally or, for the
\* wait, go on as WaitFuture and FinalWait say.
SelfLock(t) == Runs(t) /\ AtLock(t) /\ futuresMutex = t
PopEmpty(t) ==
    Runs(t) /\ AtRelock(t) /\ futuresMutex = 0 /\ Finished(Top(t).target)
            /\ futures = <<>>
WaitDangling(t) ==
    Runs(t) /\ AtRelock(t) /\ Top(t).target \notin Range(futures)
Undefined(t) ==
    /\ SelfLock(t) \/ PopEmpty(t) \/ WaitDangling(t)
    /\ fault' = TRUE
    /\ UNCHANGED <<threads, stopAt, tasks, futures, futuresMutex, activeThreads, visits>>
    /\ UNCHANGED treeVars
    /\ UNCHANGED thr

\* applyFunctionToNode(node, func): the entities func is called with, in
\* call order. A false result of func ends the call on this node only; the
\* caller's loop over its children goes on.
RECURSIVE applyFunctionToNode(_, _, _)
applyFunctionToNode(ns, n, stop) ==
    LET d == ns[n].data
        K == {k \in DOMAIN d : d[k] = stop}
    IN  IF K # {} THEN SubSeq(d, 1, Min(K))
        ELSE d \o Concat([s \in 1..NumSlots |->
                IF ns[n].children[SlotSeq[s]] = 0 THEN <<>>
                ELSE applyFunctionToNode(ns, ns[n].children[SlotSeq[s]], stop)])

\* forEach(func): applyFunctionToNode(this, func) in the caller's thread
ForEach ==
    /\ Runs(1) /\ Top(1).pc = "forEach"
    /\ visits' = applyFunctionToNode(nodes, Top(1).node, stopAt)
    /\ tasks' = [tasks EXCEPT ![1] = <<>>]
    /\ UNCHANGED <<threads, stopAt, futures, futuresMutex, activeThreads, fault>>
    /\ UNCHANGED treeVars
    /\ UNCHANGED thr

TraverseNext ==
    \/ ForEach
    \/ \E t \in DOMAIN tasks : VisitData(t)
    \/ \E t \in DOMAIN tasks : SpawnChild(t)
    \/ \E t \in DOMAIN tasks : CallChild(t)
    \/ \E t \in DOMAIN tasks : PushFutures(t)
    \/ \E t \in DOMAIN tasks : ManageFutures(t)
    \/ \E t \in DOMAIN tasks : WaitFuture(t)
    \/ FinalLoop
    \/ FinalWait
    \/ \E t \in DOMAIN tasks : Undefined(t)

\* the trees the traversals are run on: those built by the constructor and up to
\* NumEntities - 1 inserts that return
Scripts == UNION {[1..k -> Points] : k \in 0..(NumEntities - 1)}

RECURSIVE Build(_, _, _)
Build(st, script, e) ==
    IF script = <<>> \/ ~st.ok THEN st
    ELSE LET P == [st.pos EXCEPT ![e] = Head(script)]
             r == insert(st.nodes, st.root, e, P)
         IN  Build([nodes |-> r.nodes, root |-> r.ret, pos |-> P, ok |-> ~r.crashed],
                   Tail(script), e + 1)

TraverseInit ==
    \E l \in RootLengths : \E p \in {q \in Points : inside(Box(Origin, l), q)} :
      \E script \in Scripts, b \in 0..MaxBudget, s \in {0} \cup Entities :
       \E call \in {"forEach", "forEachAsync"} :
        LET built == Build([nodes |-> <<NewLeaf(Box(Origin, l), 1)>>, root |-> 1,
                            pos |-> [e \in Entities |-> IF e = 1 THEN p ELSE Origin],
                            ok |-> TRUE], script, 2)
        IN  /\ built.ok
            /\ call = "forEach" => b = 0
            /\ nodes = built.nodes
            /\ root = built.root
            /\ pos = built.pos
            /\ prev = built.pos
            /\ crashed = FALSE
            /\ last = NoCall
            /\ placedAt = [e \in Entities |->
                             IF e <= Len(script) + 1 THEN built.pos[e] ELSE NoPos]
            /\ pure = FALSE
            /\ upd = NoUpdate
            /\ ops = Len(script)
            /\ threads = b
            /\ stopAt = s
            /\ tasks = IF call = "forEach"
                       THEN <<<<Frame(built.root, "forEach", 0)>>>>
                       ELSE <<<<Frame(0, "final", 0), Enter(built.nodes, built.root)>>>>
            /\ futures = <<>>
            /\ futuresMutex = 0
            /\ activeThreads = 0
            /\ visits = <<>>
            /\ fault = FALSE
            /\ thr = <<>>

SpecTraverse == TraverseInit /\ [][TraverseNext]_vars

----------------------------------------------------------------------------
\* Calls made on one tree by several threads at the same time, with the
\* node mutexes. Entities are at rest in this specification: no position
\* changes after insert, so collectAndRemove finds no mover, toReinsert
\* stays empty and the reinsert phase of update launches no task.

\* caller threads, and calls made in all
NumThreads == 2
MaxCalls == 3

\* One activation of a member function on a node: where it stands (pc), the
\* child slot its loop is at (i), whether its lock_guard holds node->mtx,
\* and the tasks its collectAndRemove has started (kids)
Act(n, pc) == [node |-> n, pc |-> pc, i |-> 1, locked |-> FALSE, kids |-> {}]

\* a thread outside any call, or a task that has finished
NoThread == [op |-> "none", e |-> 0, r |-> 0, stack |-> <<>>, res |-> <<>>]

Active(t) == thr[t].stack # <<>>
TopAct(t) == thr[t].stack[Len(thr[t].stack)]

\* the nodes whose mutex thread t owns, and the owner of node n's mutex
Locks(t) ==
    {thr[t].stack[k].node : k \in {j \in DOMAIN thr[t].stack : thr[t].stack[j].locked}}
Owner(n) ==
    IF \E t \in DOMAIN thr : n \in Locks(t)
    THEN CHOOSE t \in DOMAIN thr : n \in Locks(t)
    ELSE 0

\* the first statement of each function: insert, remove,
\* findParentNodeRecursive and collectAndRemove lock node->mtx; queryRange
\* tests intersects; applyFunctionToNode reads node->data
FirstPc(op) ==
    IF op = "query" THEN "enter" ELSE IF op = "forEach" THEN "scan" ELSE "lock"

\* An activation has returned val and st is the stack below it. insert
\* returns what parent->insert returned; remove and findParentNodeRecursive
\* return a child's result that is true / not null and else go on with the
\* next slot; queryRange and applyFunctionToNode go on with the next slot.
\* A lock_guard is released when its activation leaves the stack.
RECURSIVE Unwind(_, _, _)
Unwind(st, op, val) ==
    IF st = <<>> THEN [stack |-> st, val |-> val]
    ELSE IF op = "insert" \/ (op \in {"remove", "find"} /\ val # 0)
    THEN Unwind(SubSeq(st, 1, Len(st) - 1), op, val)
    ELSE [stack |-> [st EXCEPT ![Len(st)].i = @ + 1], val |-> val]

\* thread t's innermost activation returns val
ReturnFrom(t, val) ==
    LET u == Unwind(SubSeq(thr[t].stack, 1, Len(thr[t].stack) - 1), thr[t].op, val)
    IN  IF u.stack = <<>> THEN [thr EXCEPT ![t] = NoThread]
        ELSE [thr EXCEPT ![t].stack = u.stack]
SetAct(t, a) == [thr EXCEPT ![t].stack[Len(thr[t].stack)] = a]
PushAct(t, a, b) ==
    [thr EXCEPT ![t].stack = Append(SubSeq(@, 1, Len(@) - 1), a) \o <<b>>]

CanCall(t) ==
    /\ ~fault /\ ~crashed /\ ops < MaxCalls
    /\ t \in 1..NumThreads /\ ~Active(t)
Steps(t) == ~fault /\ ~crashed /\ t \in DOMAIN thr /\ Active(t)

\* a thread makes the call "root = root->insert(e)" for an entity no node
\* holds and no other thread is inserting, created as in Insert
StartInsert(t, e, p) ==
    /\ CanCall(t)
    /\ e \notin Held(nodes)
    /\ \A u \in DOMAIN thr : ~(thr[u].op = "insert" /\ thr[u].e = e)
    /\ IF placedAt[e] = NoPos
       THEN \A d \in 1..(e - 1) : placedAt[d] # NoPos
       ELSE p = pos[e]
    /\ pos' = [pos EXCEPT ![e] = p]
    /\ prev' = [prev EXCEPT ![e] = p]
    /\ placedAt' = [placedAt EXCEPT ![e] = p]
    /\ thr' = [thr EXCEPT ![t] = [op |-> "insert", e |-> e, r |-> 0,
                                  stack |-> <<Act(root, "lock")>>,
                                  res |-> <<>>]]
    /\ ops' = ops + 1
    /\ UNCHANGED <<nodes, root, crashed, last, pure, upd>>
    /\ UNCHANGED travVars

\* a thread calls root->remove(e), root->findParentNode(e),
\* root->queryRange(e, r, results), root->forEach(func) or
\* update(threads, root)
StartCall(t, op, e, r) ==
    /\ CanCall(t)
    /\ IF op \in {"forEach", "update"} THEN e = 1 ELSE placedAt[e] # NoPos
    /\ op # "query" => r = 0
    /\ thr' = [thr EXCEPT ![t] = [op |-> op, e |-> e, r |-> r,
                                  stack |-> <<Act(root, FirstPc(op))>>,
                                  res |-> <<>>]]
    /\ ops' = ops + 1
    /\ UNCHANGED <<nodes, root, pos, prev, crashed, last, placedAt, pure, upd>>
    /\ UNCHANGED travVars

\* std::lock_guard<std::mutex> lock(mtx): taken when the mutex is free
Lock(t) ==
    /\ Steps(t) /\ TopAct(t).pc = "lock"
    /\ Owner(TopAct(t).node) = 0
    /\ thr' = SetAct(t, [TopAct(t) EXCEPT !.locked = TRUE,
                            !.pc = IF thr[t].op \in {"query", "update", "task"}
                                   THEN "scan" ELSE "body"])
    /\ UNCHANGED treeVars
    /\ UNCHANGED travVars

\* insert, under this node's lock: inside the box the entity is filed and
\* "this" returned through every caller; outside, the parent is made if
\* there is none and parent->insert is called with the lock still held.
\* A parent no longer than its child: the recursion never ends (see insert).
\* The constructor of a new child locks the new node's own mutex for its
\* first insert; no other thread can reach that node yet, and the lock is
\* taken and released within this step.
InsertBody(t) ==
    /\ Steps(t) /\ thr[t].op = "insert" /\ TopAct(t).pc = "body"
    /\ LET a == TopAct(t)
           n == a.node
           up == ensureParent(nodes, n)
           p == up[n].parent
       IN  IF inside(nodes[n].box, pos[thr[t].e])
           THEN /\ nodes' = insertInside(nodes, n, thr[t].e, pos)
                /\ thr' = ReturnFrom(t, n)
                /\ root' = n
                /\ UNCHANGED crashed
           ELSE /\ nodes' = up
                /\ crashed' = (up[p].box.length <= up[n].box.length)
                /\ thr' = IF up[p].box.length <= up[n].box.length THEN thr
                          ELSE PushAct(t, [a EXCEPT !.pc = "up"], Act(p, "lock"))
                /\ UNCHANGED root
    /\ UNCHANGED <<pos, prev, last, placedAt, pure, upd, ops>>
    /\ UNCHANGED travVars

\* remove, under this node's lock: not inside, false; in the list, erased
\* and true; else the loop over the children
RemoveBody(t) ==
    /\ Steps(t) /\ thr[t].op = "remove" /\ TopAct(t).pc = "body"
    /\ LET n == TopAct(t).node
           e == thr[t].e
       IN  IF ~inside(nodes[n].box, pos[e])
           THEN thr' = ReturnFrom(t, 0) /\ UNCHANGED nodes
           ELSE IF e \in Range(nodes[n].data)
           THEN /\ thr' = ReturnFrom(t, 1)
                /\ nodes' = [nodes EXCEPT ![n].data = EraseFirst(@, e)]
           ELSE /\ thr' = SetAct(t, [TopAct(t) EXCEPT !.pc = "child"])
                /\ UNCHANGED nodes
    /\ UNCHANGED <<root, pos, prev, crashed, last, placedAt, pure, upd, ops>>
    /\ UNCHANGED travVars

\* findParentNodeRecursive, under this node's lock: node->parent if the
\* list has the entity, else the loop over the children
FindBody(t) ==
    /\ Steps(t) /\ thr[t].op = "find" /\ TopAct(t).pc = "body"
    /\ LET n == TopAct(t).node
       IN  IF thr[t].e \in Range(nodes[n].data)
           THEN thr' = ReturnFrom(t, nodes[n].parent)
           ELSE thr' = SetAct(t, [TopAct(t) EXCEPT !.pc = "child"])
    /\ UNCHANGED treeVars
    /\ UNCHANGED travVars

\* one turn of the loop over the children in remove,
\* findParentNodeRecursive, queryRange and applyFunctionToNode: the call on
\* the next child there is, or the end of the loop and the return
ChildStep(t) ==
    /\ Steps(t) /\ TopAct(t).pc = "child"
    /\ LET a == TopAct(t)
           s == NextChild(nodes[a.node], a.i)
       IN  IF s = 0 THEN thr' = ReturnFrom(t, 0)
           ELSE thr' = PushAct(t, [a EXCEPT !.i = s],
                               Act(nodes[a.node].children[SlotSeq[s]],
                                   FirstPc(thr[t].op)))
    /\ UNCHANGED treeVars
    /\ UNCHANGED travVars

\* queryRange: nothing to do unless the range meets the box
QueryEnter(t) ==
    /\ Steps(t) /\ thr[t].op = "query" /\ TopAct(t).pc = "enter"
    /\ IF intersects(pos[thr[t].e], thr[t].r, nodes[TopAct(t).node].box)
       THEN thr' = SetAct(t, [TopAct(t) EXCEPT !.pc = "lock"])
       ELSE thr' = ReturnFrom(t, 0)
    /\ UNCHANGED treeVars
    /\ UNCHANGED travVars

\* queryRange, under this node's lock: the list is scanned; the lock is
\* released before the loop over the children
QueryScan(t) ==
    /\ Steps(t) /\ thr[t].op = "query" /\ TopAct(t).pc = "scan"
    /\ thr' = [SetAct(t, [TopAct(t) EXCEPT !.pc = "child", !.locked = FALSE])
                 EXCEPT ![t].res = @ \o SelectSeq(nodes[TopAct(t).node].data,
                        LAMBDA d : withinDistance(pos[thr[t].e], pos[d], thr[t].r))]
    /\ UNCHANGED treeVars
    /\ UNCHANGED travVars

\* applyFunctionToNode: func is called for every element of node->data;
\* the lock_guard of this function is commented out in the source
ForEachScan(t) ==
    /\ Steps(t) /\ thr[t].op = "forEach" /\ TopAct(t).pc = "scan"
    /\ thr' = [SetAct(t, [TopAct(t) EXCEPT !.pc = "child"])
                 EXCEPT ![t].res = @ \o nodes[TopAct(t).node].data]
    /\ UNCHANGED treeVars
    /\ UNCHANGED travVars

\* the children of a node in loop order
ChildSeq(nd) ==
    SelectSeq([s \in 1..NumSlots |-> nd.children[SlotSeq[s]]], LAMBDA c : c # 0)

\* collectAndRemove, under this node's lock: the movers leave the list, a
\* task is started for every child, and the lock is kept while the futures
\* are waited for
CollectScan(t) ==
    /\ Steps(t) /\ thr[t].op \in {"update", "task"} /\ TopAct(t).pc = "scan"
    /\ LET a == TopAct(t)
           cs == ChildSeq(nodes[a.node])
       IN  /\ nodes' = [nodes EXCEPT ![a.node].data =
                            SelectSeq(@, LAMBDA d : ~isMover(d, pos, prev))]
           /\ thr' = SetAct(t, [a EXCEPT !.pc = "join",
                                   !.kids = (Len(thr) + 1)..(Len(thr) + Len(cs))])
                     \o [j \in 1..Len(cs) |->
                           [op |-> "task", e |-> 0, r |-> 0, res |-> <<>>,
                            stack |-> <<Act(cs[j], "lock")>>]]
    /\ UNCHANGED <<root, pos, prev, crashed, last, placedAt, pure, upd, ops>>
    /\ UNCHANGED travVars

\* every future of this activation is ready: collectAndRemove returns. In
\* the caller's thread update then finds toReinsert empty, walks to the
\* topmost node and returns it, and the caller adopts it as its root.
CollectJoin(t) ==
    /\ Steps(t) /\ thr[t].op \in {"update", "task"} /\ TopAct(t).pc = "join"
    /\ \A k \in TopAct(t).kids : ~Active(k)
    /\ thr' = ReturnFrom(t, 0)
    /\ root' = IF thr[t].op = "update" THEN topmost(nodes, TopAct(t).node) ELSE root
    /\ UNCHANGED <<nodes, pos, prev, crashed, last, placedAt, pure, upd, ops>>
    /\ UNCHANGED travVars

\* What the next step of thread t reads or writes of node lists ("data")
\* and child-slot arrays ("children"), and whether t owns that node's mutex
Access(t, n, part, w) ==
    [node |-> n, part |-> part, write |-> w, locked |-> n \in Locks(t)]

\* the child whose list insertToChild on node n appends the entity to (0:
\* none, the slot is empty or no slot contains the position)
PushTarget(n, e) ==
    LET hits == {s \in 1..NumSlots : inside(childBBox(nodes[n].box, SlotSeq[s]), pos[e])}
    IN  IF hits = {} THEN 0 ELSE nodes[n].children[SlotSeq[Min(hits)]]

Touches(t) ==
    LET a == TopAct(t)
        n == a.node
        op == thr[t].op
    IN  IF a.pc = "child" THEN {Access(t, n, "children", FALSE)}
        ELSE IF a.pc = "body" /\ op = "insert" THEN
            IF ~inside(nodes[n].box, pos[thr[t].e]) THEN {}
            ELSE IF isParent(nodes[n]) THEN
                IF PushTarget(n, thr[t].e) # 0
                THEN {Access(t, n, "children", FALSE),
                      Access(t, PushTarget(n, thr[t].e), "data", TRUE)}
                ELSE {Access(t, n, "children", TRUE)}
            ELSE {Access(t, n, "data", TRUE),
                  Access(t, n, "children", Len(nodes[n].data) >= MaxT)}
        ELSE IF a.pc = "body" /\ op = "remove" THEN
            IF ~inside(nodes[n].box, pos[thr[t].e]) THEN {}
            ELSE {Access(t, n, "data", thr[t].e \in Range(nodes[n].data))}
        ELSE IF a.pc = "body" THEN {Access(t, n, "data", FALSE)}
        ELSE IF a.pc = "scan" /\ op \in {"update", "task"} THEN
            {Access(t, n, "data", moversOf(nodes[n], pos, prev) # <<>>),
             Access(t, n, "children", FALSE)}
        ELSE IF a.pc = "scan" THEN {Access(t, n, "data", FALSE)}
        ELSE {}

\* two threads are about to access the same list or slot array, one of them
\* writing, and they do not both own the node's mutex
DataRace ==
    \E t1, t2 \in DOMAIN thr :
        /\ t1 # t2 /\ Active(t1) /\ Active(t2)
        /\ \E a1 \in Touches(t1), a2 \in Touches(t2) :
              /\ a1.node = a2.node /\ a1.part = a2.part
              /\ a1.write \/ a2.write
              /\ ~(a1.locked /\ a2.locked)

\* Undefined behaviour: the two accesses of a data race either fall one
\* after the other, as the other actions have it, or the vector is
\* corrupted and the process ends abnormally.
RaceFault ==
    /\ ~fault /\ ~crashed
    /\ DataRace
    /\ fault' = TRUE
    /\ UNCHANGED <<threads, stopAt, tasks, futures, futuresMutex, activeThreads, visits>>
    /\ UNCHANGED treeVars
    /\ UNCHANGED thr

Ops == {"remove", "find", "query", "forEach", "update"}

LocksInit ==
    \E l \in RootLengths : \E p \in {q \in Points : inside(Box(Origin, l), q)} :
        /\ nodes = <<NewLeaf(Box(Origin, l), 1)>>
        /\ root = 1
        /\ pos = [e \in Entities |-> IF e = 1 THEN p ELSE Origin]
        /\ prev = [e \in Entities |-> IF e = 1 THEN p ELSE Origin]
        /\ crashed = FALSE
        /\ last = NoCall
        /\ placedAt = [e \in Entities |-> IF e = 1 THEN p ELSE NoPos]
        /\ pure = FALSE
        /\ upd = NoUpdate
        /\ ops = 0
        /\ NoTraversal
        /\ thr = [t \in 1..NumThreads |-> NoThread]

LocksNext ==
    \/ \E t \in 1..NumThreads, e \in Entities, p \in Points : StartInsert(t, e, p)
    \/ \E t \in 1..NumThreads, op \in Ops, e \in Entities, r \in Radii :
          StartCall(t, op, e, r)
    \/ \E t \in DOMAIN thr : Lock(t)
    \/ \E t \in DOMAIN thr : InsertBody(t)
    \/ \E t \in DOMAIN thr : RemoveBody(t)
    \/ \E t \in DOMAIN thr : FindBody(t)
    \/ \E t \in DOMAIN thr : ChildStep(t)
    \/ \E t \in DOMAIN thr : QueryEnter(t)
    \/ \E t \in DOMAIN thr : QueryScan(t)
    \/ \E t \in DOMAIN thr : ForEachScan(t)
    \/ \E t \in DOMAIN thr : CollectScan(t)
    \/ \E t \in DOMAIN thr : CollectJoin(t)
    \/ RaceFault

SpecLocks == LocksInit /\ [][LocksNext]_vars

----------------------------------------------------------------------------
\* the claims

\* the entity has not moved since insert was last called on it
Unmoved(e) == placedAt[e] = pos[e]

\* C1: after only inserts of distinct entities positioned within the first
\* root's cube, a query that covers the whole cube returns every inserted
\* entity exactly once and nothing else.
C1_QueryReturnsInserted ==
    pure =>
        \A e \in Entities :
            Count(queryRange(nodes, root, pos[1], QueryAll, pos), e)
                = IF placedAt[e] # NoPos THEN 1 ELSE 0

\* C2: when update returns, every entity its collect phase took out of a
\* node's list is in exactly one node's list, exactly once.
C2_NoMoverLost ==
    [][(upd.pc = "reinsert" /\ upd'.pc = "idle") =>
        \A e \in upd.movers : HeldCount(nodes', e) = 1]_vars

\* a step that is insert called with a position outside the root's cube
OutsideInsert ==
    /\ last'.op = "insert" /\ ops' = ops + 1
    /\ ~inside(nodes[root].box, pos'[last'.e])

\* what C3 says of the root that replaces the old one
GrowthKeepsAndCovers ==
    /\ \A e \in Entities : HeldCount(nodes', e) >= HeldCount(nodes, e)
    /\ \A e \in Held(nodes), c \in Points, r \in Radii :
          e \in Range(queryRange(nodes, root, c, r, pos))
             => e \in Range(queryRange(nodes', root', c, r, pos'))
    /\ BoxWithin(nodes[root].box, nodes'[root'].box)
    /\ inside(nodes'[root'].box, pos'[last'.e])

\* C3: an insert called with a position outside the root's cube replaces
\* the root by one under which every entity held before is still held and
\* still returned by the queries that returned it, and whose cube contains
\* the old root's cube and the position.
C3_GrowthCovers ==
    [][OutsideInsert => (~crashed' /\ root' # root /\ GrowthKeepsAndCovers)]_vars

\* The same, for the inserts that return: it holds, and fails only where
\* the upward recursion never ends.
GrowthCoversWhenReturned ==
    [][(OutsideInsert /\ ~crashed') => (root' # root /\ GrowthKeepsAndCovers)]_vars

\* C4: right after insert(E) returns, the query of radius 0 around E on the
\* root returned contains E.
C4_InsertThenQuery ==
    (last.op = "insert" /\ ~crashed) =>
        last.e \in Range(queryRange(nodes, root, pos[last.e], 0, pos))

\* C5: right after remove(E) of an entity that has not moved since it was
\* inserted, E is in no node's list and in no radius query around E.
C5_RemoveThenQuery ==
    (last.op = "remove" /\ Unmoved(last.e)) =>
        /\ last.e \notin Held(nodes)
        /\ \A r \in Radii :
              last.e \notin Range(queryRange(nodes, root, pos[last.e], r, pos))

\* C6: remove(E) of an entity no node holds returns false and changes no
\* node and not the root.
C6_RemoveAbsentNoChange ==
    [][(last'.op = "remove" /\ ops' = ops + 1 /\ last'.e \notin Held(nodes)) =>
        (last'.ret = 0 /\ nodes' = nodes /\ root' = root)]_vars

\* remove has returned false for an entity absent from a tree of several nodes
C6_Witness ==
    /\ last.op = "remove" /\ last.ret = 0
    /\ last.e \notin Held(nodes)
    /\ Held(nodes) # {} /\ Len(nodes) > 1
    /\ inside(nodes[root].box, pos[last.e])

\* C7: an update that follows an update, with no call and no move between,
\* changes no node's list, children, parent or cube, and returns the same root.
C7_UpdateIdempotent ==
    [][(last.op = "update" /\ upd' # upd) =>
        (nodes' = nodes /\ root' = root /\ upd'.movers = {})]_vars

\* a second update in a row has returned on a tree of several nodes that
\* holds several entities
C7_Witness ==
    /\ last.op = "update" /\ last.rep /\ upd.pc = "idle"
    /\ Cardinality(Held(nodes)) >= 2 /\ Len(nodes) > 1

\* the call has returned to its caller
TraversalReturned == tasks # <<>> /\ tasks[1] = <<>>

\* a thread waits for the mutex it owns itself
SelfBlocked == \E t \in DOMAIN tasks : SelfLock(t)

\* C8: for every budget and tree the traversal ends: no thread blocks on
\* futuresMutex or on a future for ever, the call returns with every task
\* finished, and every held entity was visited if func never said stop.
C8_TraversalCompletes ==
    tasks # <<>> =>
        /\ ~fault
        /\ ~SelfBlocked
        /\ TraversalReturned \/ ENABLED TraverseNext
        /\ TraversalReturned =>
              /\ \A t \in DOMAIN tasks : Finished(t)
              /\ stopAt = 0 => Held(nodes) \subseteq Range(visits)

\* C9: a node with a child holds no entity, and no list exceeds MaxT.
C9_LeafOrInternal ==
    ~crashed => \A i \in DOMAIN nodes :
        /\ isParent(nodes[i]) => nodes[i].data = <<>>
        /\ Len(nodes[i].data) <= MaxT

\* C10: every child's cube is the sub-cube of its slot in the parent's cube.
C10_ChildCubes ==
    ~crashed => \A i \in DOMAIN nodes : \A s \in Slots :
        nodes[i].children[s] # 0 =>
            nodes[nodes[i].children[s]].box = childBBox(nodes[i].box, s)

\* C11: when insert, remove or update has returned and no held entity has
\* moved since it was last inserted or reinserted, every held entity is in
\* the list of exactly one node, once, and that node's cube contains the
\* entity's position.
C11_OneNodeContaining ==
    (~crashed /\ upd.pc = "idle" /\ \A e \in Held(nodes) : Unmoved(e)) =>
        \A e \in Held(nodes) :
            /\ HeldCount(nodes, e) = 1
            /\ \A i \in Holders(nodes, e) : inside(nodes[i].box, pos[e])

\* thread t holds the mutex of a node and, taken later, that of its child
HoldsParentThenChild(t) ==
    \E i, j \in DOMAIN thr[t].stack :
        /\ i < j /\ thr[t].stack[i].locked /\ thr[t].stack[j].locked
        /\ nodes[thr[t].stack[j].node].parent = thr[t].stack[i].node

\* a collect task holds the mutex of a child while the activation that
\* started it still holds the parent's
TaskHoldsChild(t) ==
    \E u \in DOMAIN thr : \E a \in Range(thr[u].stack) :
        /\ t \in a.kids /\ a.locked
        /\ \E n \in Locks(t) : nodes[n].parent = a.node

\* C12: no call holds the lock of a node while it takes, or one of its
\* tasks takes, the lock of a child of that node.
C12_NoChildLockUnderParent ==
    \A t \in DOMAIN thr : ~HoldsParentThenChild(t) /\ ~TaskHoldsChild(t)

\* the threads t cannot go on without: the owner of the mutex it is
\* waiting for, the unfinished tasks whose futures it is waiting for
Waits(t) ==
    IF ~Active(t) THEN {}
    ELSE IF TopAct(t).pc = "lock" THEN {Owner(TopAct(t).node)} \ {0}
    ELSE IF TopAct(t).pc = "join" THEN {k \in TopAct(t).kids : Active(k)}
    ELSE {}

\* a set of threads each of which waits for a thread of the set
Deadlocked(S) == S # {} /\ \A t \in S : Waits(t) \cap S # {}

\* C13: in no reachable state is there a set of threads every one of which
\* is blocked on a node lock, or on a task, held up by another of the set.
C13_NoDeadlock == \A S \in SUBSET DOMAIN thr : ~Deadlocked(S)

\* a reinsert task has yet to read update's variable root for its
\* "root->insert(data)", which it does under insertMutex, while the thread
\* of update is about to assign "root = futures.front().get()", which it
\* does under no lock
RootHandleRace ==
    /\ ~crashed /\ upd.pc = "reinsert" /\ upd.prevDone
    /\ upd.consumed < Len(upd.results)
    /\ upd.results[upd.consumed + 1] # 0
    /\ \E i \in DOMAIN upd.results : upd.results[i] = 0

\* a parent link, once set, is not set again
ParentAssignedOnce ==
    [][\A n \in DOMAIN nodes :
          nodes[n].parent # 0 => nodes'[n].parent = nodes[n].parent]_vars

\* every node is under one topmost node
SingleTopmost ==
    \A i, j \in DOMAIN nodes : topmost(nodes, i) = topmost(nodes, j)

\* C14: root replacement is free of races: no parent link is assigned
\* twice, the root variable an insertion reads is never written by another
\* thread at the same time, and every node stays under one topmost root.
C14_RootReplacement ==
    /\ ParentAssignedOnce
    /\ [](~RootHandleRace /\ (~crashed => SingleTopmost))

\* node n is d or above d
RECURSIVE Above(_, _, _)
Above(ns, n, d) ==
    IF d = 0 THEN FALSE ELSE IF d = n THEN TRUE ELSE Above(ns, n, ns[d].parent)

\* the collect tasks in flight, by the node each was started for: the task
\* has not scanned its node yet, or it waits for the future of a task below
InFlight ==
    {n \in DOMAIN nodes \ {upd.root} : \E d \in upd.pending : Above(nodes, n, d)}

\* C15: during the collect phase the number of subtree tasks in flight
\* never exceeds the budget passed to update; with a budget of 0 there is
\* none.
C15_CollectWithinBudget ==
    upd.pc = "collect" => Cardinality(InFlight) <= upd.threads

\* C16: an entity the collect phase took out of a list has m_prevPosition
\* equal to m_position only once its reinsertion has put it in a list.
C16_PrevAfterReinsert ==
    \A e \in upd.movers : prev[e] = pos[e] => HeldCount(nodes, e) >= 1

\* C17: no thread writes a node's entity list or child-slot array while
\* another thread, not excluded by that node's lock, reads or writes it.
C17_ListsUnderLock == ~DataRace /\ ~(thr # <<>> /\ fault)

\* C18: in a traversal run by one task, forEach or forEachAsync with every
\* child processed by a plain call, func is not called again after it has
\* returned false.
C18_StopEndsTraversal ==
    Len(tasks) = 1 =>
        \A i \in DOMAIN visits : visits[i] = stopAt => i = Len(visits)

\* the cubes from the old root up to the root returned grow strictly
RECURSIVE GrowsStrictly(_, _, _)
GrowsStrictly(ns, n, top) ==
    IF n = top THEN TRUE
    ELSE /\ ns[n].parent # 0
         /\ ns[ns[n].parent].box.length > ns[n].box.length
         /\ GrowsStrictly(ns, ns[n].parent, top)

\* C19: an insert called with a position outside the root's cube, whatever
\* the root's side, returns after growth steps each of which makes a
\* strictly larger cube, with the entity held under a root whose cube
\* contains the position.
C19_GrowthTerminates ==
    [][OutsideInsert =>
          /\ ~crashed'
          /\ GrowsStrictly(nodes', root, root')
          /\ inside(nodes'[root'].box, pos'[last'.e])
          /\ HeldCount(nodes', last'.e) = 1]_vars

\* two collect tasks that have been started and have not scanned their
\* nodes yet each have a mover to append: nothing orders the two push_back
AppendRace ==
    /\ upd.pc = "collect"
    /\ \E n, m \in upd.pending :
          /\ n # m
          /\ moversOf(nodes[n], pos, prev) # <<>>
          /\ moversOf(nodes[m], pos, prev) # <<>>

\* C20: no two collect tasks append to toReinsert at the same time, and
\* every entity taken out of a list is in toReinsert exactly once.
C20_AppendsUnderLock ==
    /\ ~AppendRace
    /\ \A e \in upd.movers : Count(upd.toReinsert, e) = 1

====
